---------------------------- MODULE Spec2Model ----------------------------
(***************************************************************************)
(* A model of ptt_crawler.py: the crawl / filter / extract / persist       *)
(* pipeline of the board crawler.                                          *)
(*                                                                         *)
(* Text is modelled as a sequence of atoms.  A popularity token is a       *)
(* sequence of characters ("Bao" stands for the one-character maximum      *)
(* sentinel, "X" for the controversial one).  A line of a post is a        *)
(* sequence of atoms: the localized marker words "Title", "Author",        *)
(* "Board", "Time", the punctuation ":", the blank " " and a plain word    *)
(* "w"; "NL" is the newline that joins lines.                              *)
(***************************************************************************)
EXTENDS Integers, Sequences, FiniteSets, TLC

VARIABLES
    \* ---- the pipeline of __main__ ----
    pc,             \* position of the sequential flow
    runs,           \* number of pipeline runs started
    latest_index,   \* crawl_posts: result of get_latest_index, None or <<n>>
    page_index,     \* crawl_posts: loop variable
    all_articles,   \* crawl_posts: accumulated listing records
    data,           \* __main__: the DataFrame crawl_posts returned
    raw,            \* storage: <board>_raw.csv
    filt,           \* storage: <board>_above_<threshold>_rec.csv
    content,        \* storage: <board>_content.csv, its rows
    filtered,       \* __main__: the DataFrame process_and_save_data returned
    to_crawl,       \* crawl_ptt_post_content: rows still to fetch
    i,              \* crawl_ptt_post_content: position in to_crawl (1-based)
    \* ---- observations of the current run (history) ----
    visited,        \* [index, outcome] of every crawl_page call, in order
    pageSleeps,     \* random_sleep(PAGE_SLEEP_TIME_RANGE) calls
    existing,       \* existing_links built at the start of the persister
    readFailed,     \* the read of the content table raised
    attempts,       \* to_crawl positions for which safe_write_csv was called
    appended,       \* to_crawl positions whose row reached the table
    postSleeps,     \* random_sleep() calls of the persister
    failedAt,       \* the three tables as they were when resolution failed
    sameQ,          \* the persister got the collection its previous run got
    prevWritesOk,   \* every write of the previous persister run succeeded
    \* ---- direct calls of process_recommendations ----
    f_pc, f_rows, f_threshold, f_result,
    \* ---- direct calls of get_structured_content ----
    e_pc, e_page, e_result

pvars == <<pc, runs, latest_index, page_index, all_articles, data, raw, filt,
           content, filtered, to_crawl, i, visited, pageSleeps, existing,
           readFailed, attempts, appended, postSleeps, failedAt, sameQ,
           prevWritesOk>>
fvars == <<f_pc, f_rows, f_threshold, f_result>>
evars == <<e_pc, e_page, e_result>>
vars  == <<pvars, fvars, evars>>

\* Optional values: None, or <<v>>.
None == <<>>
Some(v) == <<v>>

---------------------------------------------------------------------------
\* Generic sequence helpers.

RECURSIVE SeqsUpTo(_, _)
SeqsUpTo(S, n) ==
    IF n = 0 THEN {<<>>}
    ELSE LET shorter == SeqsUpTo(S, n - 1)
         IN  shorter \cup {Append(s, x) : s \in {t \in shorter : Len(t) = n - 1}, x \in S}

RECURSIVE Flatten(_)
Flatten(ss) == IF ss = <<>> THEN <<>> ELSE Head(ss) \o Flatten(Tail(ss))

IsPrefix(s, t) == Len(s) <= Len(t) /\ SubSeq(t, 1, Len(s)) = s

Range(s) == {s[k] : k \in DOMAIN s}

---------------------------------------------------------------------------
\* Popularity Filter: process_recommendations.

DEFAULT_THRESHOLD == 40

Digits == {"0", "1", "2", "3", "4", "5", "6", "7", "8", "9"}

DigitVal(c) ==
    CASE c = "0" -> 0 [] c = "1" -> 1 [] c = "2" -> 2 [] c = "3" -> 3
      [] c = "4" -> 4 [] c = "5" -> 5 [] c = "6" -> 6 [] c = "7" -> 7
      [] c = "8" -> 8 [] c = "9" -> 9

RECURSIVE DecimalVal(_)
DecimalVal(ds) ==
    IF ds = <<>> THEN 0
    ELSE 10 * DecimalVal(SubSeq(ds, 1, Len(ds) - 1)) + DigitVal(ds[Len(ds)])

AllDigits(ds) == ds # <<>> /\ \A k \in DOMAIN ds : ds[k] \in Digits

\* df["nrec"].replace({...}): a cell equal to a key is replaced, whole cell only.
ReplaceSentinel(tok) ==
    IF tok = <<"Bao">> THEN <<"1", "0", "0">>
    ELSE IF tok = <<"X">> THEN <<"-", "1">>
    ELSE tok

\* pd.to_numeric(..., errors="coerce") on integer text: None stands for NaN.
ToNumeric(tok) ==
    IF AllDigits(tok) THEN Some(DecimalVal(tok))
    ELSE IF tok # <<>> /\ Head(tok) = "-" /\ AllDigits(Tail(tok))
         THEN Some(0 - DecimalVal(Tail(tok)))
    ELSE None

FillNa(x, d) == IF x = None THEN d ELSE x[1]

Numeric(tok) == FillNa(ToNumeric(ReplaceSentinel(tok)), 0)

\* Python's `threshold or DEFAULT`: None and 0 are both falsy.
EffectiveThreshold(threshold) ==
    IF threshold = None \/ threshold = Some(0) THEN DEFAULT_THRESHOLD ELSE threshold[1]

RECURSIVE SelectRows(_, _)
SelectRows(rows, thr) ==
    IF rows = <<>> THEN <<>>
    ELSE (IF Numeric(Head(rows).nrec) >= thr THEN <<Head(rows)>> ELSE <<>>)
         \o SelectRows(Tail(rows), thr)

\* The rows of process_recommendations(df, threshold), for a df that has the
\* nrec column.
process_recommendations(rows, threshold) ==
    SelectRows(rows, EffectiveThreshold(threshold))

---------------------------------------------------------------------------
\* Content Extractor: get_structured_content.
\*
\* A document node is [kind, line, href, kids]: a text node carries one line
\* of text, an anchor ("a") an href ("" when it has none) and its children,
\* "div" / "span" / "b" elements their children.

TextNode(l)     == [kind |-> "text", line |-> l,    href |-> "", kids |-> <<>>]
Element(k, ks)  == [kind |-> k,      line |-> <<>>, href |-> "", kids |-> ks]
Anchor(h, ks)   == [kind |-> "a",    line |-> <<>>, href |-> h,  kids |-> ks]

\* str.strip() of one line: leading and trailing blanks go.
RECURSIVE LStrip(_)
LStrip(l) == IF l # <<>> /\ Head(l) = " " THEN LStrip(Tail(l)) ELSE l

RECURSIVE RStrip(_)
RStrip(l) ==
    IF l # <<>> /\ l[Len(l)] = " " THEN RStrip(SubSeq(l, 1, Len(l) - 1)) ELSE l

Strip(l) == LStrip(RStrip(l))

Contains(l, atom) == \E k \in DOMAIN l : l[k] = atom

\* main.find_all(["div", "span"], recursive=False) + tag.extract(): the
\* direct div and span children leave the tree.
StripDecoration(children) ==
    SelectSeq(children, LAMBDA n : n.kind \notin {"div", "span"})

\* main.get_text(separator="\n") followed by splitlines(): the text nodes of
\* the tree in document order, one line each.  Nodes nest at most two deep.
NodeText(n) ==
    IF n.kind = "text" THEN <<n.line>>
    ELSE Flatten([k \in DOMAIN n.kids |->
            IF n.kids[k].kind = "text" THEN <<n.kids[k].line>>
            ELSE Flatten([j \in DOMAIN n.kids[k].kids |->
                    IF n.kids[k].kids[j].kind = "text"
                    THEN <<n.kids[k].kids[j].line>> ELSE <<>>])])

GetText(children) == Flatten([k \in DOMAIN children |-> NodeText(children[k])])

\* [ln.strip() for ln in text.splitlines() if ln.strip()]
NonBlankLines(ls) ==
    LET stripped == [k \in DOMAIN ls |-> Strip(ls[k])]
    IN  SelectSeq(stripped, LAMBDA l : l # <<>>)

\* main.find_all("a", href=True): every anchor below main that has an href,
\* in document order.
NodeAnchors(n) ==
    (IF n.kind = "a" /\ n.href # "" THEN <<n.href>> ELSE <<>>)
    \o Flatten([k \in DOMAIN n.kids |->
            (IF n.kids[k].kind = "a" /\ n.kids[k].href # ""
             THEN <<n.kids[k].href>> ELSE <<>>)
            \o Flatten([j \in DOMAIN n.kids[k].kids |->
                    IF n.kids[k].kids[j].kind = "a" /\ n.kids[k].kids[j].href # ""
                    THEN <<n.kids[k].kids[j].href>> ELSE <<>>])])

FindAnchors(children) == Flatten([k \in DOMAIN children |-> NodeAnchors(children[k])])

\* re.sub(r"^.*?MARK[:,]\s*", "", line).strip(): the text up to the first
\* marker that is followed by punctuation goes, with the blanks after it; a
\* line whose marker is followed by no punctuation is kept whole.
MarkerSub(line, marker) ==
    LET hits == {k \in 1..(Len(line) - 1) : line[k] = marker /\ line[k + 1] = ":"}
    IN  IF hits = {} THEN Strip(line)
        ELSE LET k == CHOOSE h \in hits : \A g \in hits : h <= g
             IN  Strip(SubSeq(line, k + 2, Len(line)))

\* The while loop over lines: [title, source, body_lines].
RECURSIVE Classify(_, _)
Classify(lines, acc) ==
    IF lines = <<>> THEN acc
    ELSE LET line == Head(lines)
         IN  Classify(Tail(lines),
                IF Contains(line, "Title")
                THEN [acc EXCEPT !.title = MarkerSub(line, "Title")]
                ELSE IF Contains(line, "Author")
                THEN [acc EXCEPT !.source = MarkerSub(line, "Author")]
                ELSE [acc EXCEPT !.body_lines = Append(@, line)])

IsHeaderLine(line) == Contains(line, "Board") \/ Contains(line, "Time")

\* The for loop over body_lines with its content_started flag.
RECURSIVE CleanLoop(_, _, _)
CleanLoop(body_lines, content_started, clean_content) ==
    IF body_lines = <<>> THEN clean_content
    ELSE LET line == Head(body_lines)
         IN  IF ~content_started /\ IsHeaderLine(line)
             THEN CleanLoop(Tail(body_lines), FALSE, clean_content)
             ELSE CleanLoop(Tail(body_lines), TRUE, Append(clean_content, line))

\* A cleanup without the content_started flag: every Board / Time line goes.
CleanContent_NoFlag(body_lines) ==
    SelectSeq(body_lines, LAMBDA l : ~IsHeaderLine(l))

CleanContent(body_lines) == CleanLoop(body_lines, FALSE, <<>>)

\* "\n".join(lines)
RECURSIVE Join(_)
Join(lines) ==
    IF lines = <<>> THEN <<>>
    ELSE IF Len(lines) = 1 THEN Head(lines)
    ELSE Head(lines) \o <<"NL">> \o Join(Tail(lines))

\* str.splitlines() of a joined text.
RECURSIVE SplitLines(_, _)
SplitLines(text, cur) ==
    IF text = <<>> THEN (IF cur = <<>> THEN <<>> ELSE <<cur>>)
    ELSE IF Head(text) = "NL" THEN <<cur>> \o SplitLines(Tail(text), <<>>)
    ELSE SplitLines(Tail(text), Append(cur, Head(text)))

\* The empty dict returned on a failed fetch or a missing main region.
EmptyResult ==
    [present |-> FALSE, title |-> <<>>, source |-> <<>>, urls |-> <<>>, content |-> <<>>]

\* A page is [reachable, hasMain, main]: main is the child sequence of
\* div#main-content.
get_structured_content(page) ==
    IF ~page.reachable THEN EmptyResult
    ELSE IF ~page.hasMain THEN EmptyResult
    ELSE LET kept  == StripDecoration(page.main)
             lines == NonBlankLines(GetText(kept))
             urls  == FindAnchors(kept)
             c     == Classify(lines, [title |-> <<>>, source |-> <<>>, body_lines |-> <<>>])
         IN  [present |-> TRUE,
              title   |-> c.title,
              source  |-> c.source,
              urls    |-> urls,
              content |-> Strip(Join(CleanContent(c.body_lines)))]

---------------------------------------------------------------------------
\* Pagination Resolver, Listing Scraper and the tables.

\* The index page as get_latest_index sees it: reachable or not, and its
\* second paging control: "missing", "nohref" (a disabled button: an anchor
\* with no href), or "href" with the number its target matches, if any.
IndexPage(r, c, m) == [reachable |-> r, control |-> c, match |-> m]

\* [raised, value]: prev["href"] raises KeyError on an anchor without href.
get_latest_index(page) ==
    IF ~page.reachable THEN [raised |-> FALSE, value |-> None]
    ELSE IF page.control = "missing" THEN [raised |-> FALSE, value |-> None]
    ELSE IF page.control = "nohref" THEN [raised |-> TRUE, value |-> None]
    ELSE IF page.match = None THEN [raised |-> FALSE, value |-> None]
    ELSE [raised |-> FALSE, value |-> Some(page.match[1] + 1)]

\* One div.r-ent of a listing page: title and date are None when the tag is
\* missing, nrec is None when there is no div.nrec.
Entry(t, d, l, n) == [title |-> t, date |-> d, link |-> l, nrec |-> n]

RECURSIVE ScrapeEntries(_)
ScrapeEntries(entries) ==
    IF entries = <<>> THEN <<>>
    ELSE LET e == Head(entries)
         IN  (IF e.title # None /\ e.date # None
              THEN <<[title |-> e.title[1], date |-> e.date[1], link |-> e.link,
                      nrec  |-> IF e.nrec # None THEN e.nrec[1] ELSE <<"0">>]>>
              ELSE <<>>)
             \o ScrapeEntries(Tail(entries))

\* crawl_page on a fetch outcome: None (the request failed) or <<entries>>.
crawl_page(outcome) ==
    IF outcome = None THEN <<>> ELSE ScrapeEntries(outcome[1])

\* pd.DataFrame(records): a frame built from no records has no columns.
DataFrame(records) == [cols |-> records # <<>>, rows |-> records]

\* A listing table on disk: written or not yet, and its rows.
NoTable == [written |-> FALSE, rows |-> <<>>]
ToCsv(df) == [written |-> TRUE, rows |-> df.rows]

\* "|".join(urls)
RECURSIVE JoinUrls(_)
JoinUrls(urls) ==
    IF urls = <<>> THEN <<>>
    ELSE IF Len(urls) = 1 THEN <<Head(urls)>>
    ELSE <<Head(urls), "|">> \o JoinUrls(Tail(urls))

\* structured.get(key, default)
Get(structured, key, default) ==
    IF structured.present THEN structured[key] ELSE default

\* The record crawl_ptt_post_content assembles for one row.
ContentRecord(row, structured) ==
    [title   |-> row.title,
     date    |-> row.date,
     link    |-> row.link,
     nrec    |-> row.nrec,
     source  |-> Get(structured, "source", <<>>),
     content |-> Get(structured, "content", <<>>),
     urls    |-> JoinUrls(Get(structured, "urls", <<>>))]

\* A writer that opens the table in mode "w".
safe_write_csv_Overwrite(table, record, ok) ==
    IF ok THEN <<record>> ELSE table

\* safe_write_csv(record, file) in append mode: the row goes to the end of
\* the table (after the header, when the file was empty), or the write raises,
\* the exception is swallowed and the rows of the table are left as they were.
safe_write_csv(table, record, ok) ==
    IF ok THEN Append(table, record) ELSE table

\* A persister that never builds its dedup set.
ExistingLinks_NeverBuilt(table, readOk) == {}

\* set(existing_df["link"].dropna()), or the empty set when the read raised.
ExistingLinks(table, readOk) ==
    IF readOk THEN {table[k].link : k \in DOMAIN table} ELSE {}

\* filtered_data[~filtered_data["link"].isin(existing_links)]
ToCrawl(rows, links) == SelectSeq(rows, LAMBDA r : r.link \notin links)

---------------------------------------------------------------------------
\* The environment the pipeline runs against, and the bounds of the model.

NumPages == 2        \* pages walked per run (num_pages)
MaxRuns == 2         \* pipeline runs

\* Numbers the previous-page link of the index page may carry.
PrevIndices == {3, 4}

IndexPages ==
    {IndexPage(FALSE, "missing", None), IndexPage(TRUE, "missing", None),
     IndexPage(TRUE, "nohref", None), IndexPage(TRUE, "href", None)}
    \cup {IndexPage(TRUE, "href", Some(n)) : n \in PrevIndices}

EntryA == Entry(Some("ta"), Some("d1"), "a", Some(<<"5", "0">>))
EntryB == Entry(Some("tb"), Some("d1"), "b", Some(<<"Bao">>))
EntryC == Entry(Some("tc"), Some("d2"), "c", None)
EntryDeleted == Entry(None, Some("d2"), "x", Some(<<"9", "9">>))

\* What a listing page fetch may give: a failed request, or its entries.
PageOutcomes ==
    {None, Some(<<>>), Some(<<EntryA>>), Some(<<EntryC, EntryDeleted, EntryB>>)}

PostMain ==
    <<Element("div", <<TextNode(<<"Author", ":", "w">>)>>),
      TextNode(<<"Time", "w">>),
      TextNode(<<"w">>),
      Anchor("u1", <<TextNode(<<"w">>)>>)>>

\* What the fetch of a post may give: the post behind link "a" is up, every
\* other post is unreachable or has lost its main region.
PostPages(link) ==
    IF link = "a"
    THEN {[reachable |-> TRUE,  hasMain |-> TRUE,  main |-> PostMain]}
    ELSE {[reachable |-> FALSE, hasMain |-> FALSE, main |-> <<>>],
          [reachable |-> TRUE,  hasMain |-> FALSE, main |-> <<>>]}

---------------------------------------------------------------------------
\* The pipeline of __main__.

NoSnapshot == [taken |-> FALSE, raw |-> NoTable, filt |-> NoTable, content |-> <<>>]

PInit ==
    /\ pc = "idle"
    /\ runs = 0
    /\ latest_index = None
    /\ page_index = 0
    /\ all_articles = <<>>
    /\ data = DataFrame(<<>>)
    /\ raw = NoTable
    /\ filt = NoTable
    /\ content = <<>>
    /\ filtered = DataFrame(<<>>)
    /\ to_crawl = <<>>
    /\ i = 1
    /\ visited = <<>>
    /\ pageSleeps = 0
    /\ existing = {}
    /\ readFailed = FALSE
    /\ attempts = <<>>
    /\ appended = <<>>
    /\ postSleeps = 0
    /\ failedAt = NoSnapshot
    /\ sameQ = FALSE
    /\ prevWritesOk = FALSE

FIdle == f_pc = "idle" /\ f_rows = <<>> /\ f_threshold = None /\ f_result = <<>>
EIdle ==
    /\ e_pc = "idle"
    /\ e_page = [reachable |-> FALSE, hasMain |-> FALSE, main |-> <<>>]
    /\ e_result = EmptyResult

\* The process is started (again): a run that completed its persister becomes
\* the previous run.
StartRun ==
    /\ pc \in {"idle", "done", "crashed"}
    /\ runs < MaxRuns
    /\ runs' = runs + 1
    /\ pc' = "resolve"
    /\ latest_index' = None
    /\ page_index' = 0
    /\ all_articles' = <<>>
    /\ data' = DataFrame(<<>>)
    /\ filtered' = DataFrame(<<>>)
    /\ to_crawl' = <<>>
    /\ i' = 1
    /\ visited' = <<>>
    /\ pageSleeps' = 0
    /\ existing' = {}
    /\ readFailed' = FALSE
    /\ attempts' = <<>>
    /\ appended' = <<>>
    /\ postSleeps' = 0
    /\ failedAt' = NoSnapshot
    /\ sameQ' = FALSE
    /\ prevWritesOk' = IF pc = "done" THEN appended = attempts ELSE prevWritesOk
    /\ UNCHANGED <<raw, filt, content, fvars, evars>>

\* crawl_posts, lines 118-122.
Resolve ==
    /\ pc = "resolve"
    /\ \E page \in IndexPages :
        LET r == get_latest_index(page)
            snapshot == [taken |-> TRUE, raw |-> raw, filt |-> filt, content |-> content]
        IN  IF r.raised
            THEN /\ pc' = "crashed"
                 /\ failedAt' = snapshot
                 /\ UNCHANGED <<latest_index, page_index, data>>
            ELSE IF r.value = None
            THEN /\ pc' = "save_raw"
                 /\ data' = DataFrame(<<>>)
                 /\ failedAt' = snapshot
                 /\ UNCHANGED <<latest_index, page_index>>
            ELSE /\ pc' = "walk"
                 /\ latest_index' = r.value
                 /\ page_index' = r.value[1]
                 /\ UNCHANGED <<data, failedAt>>
    /\ UNCHANGED <<runs, all_articles, raw, filt, content, filtered, to_crawl, i,
                   visited, pageSleeps, existing, readFailed, attempts, appended,
                   postSleeps, sameQ, prevWritesOk, fvars, evars>>

\* A page loop that a failed page fetch ends.
WalkPage_StopOnFailure ==
    /\ pc = "walk"
    /\ page_index > latest_index[1] - NumPages
    /\ \E outcome \in PageOutcomes :
        /\ all_articles' = all_articles \o crawl_page(outcome)
        /\ visited' = Append(visited, [index |-> page_index, outcome |-> outcome])
        /\ page_index' = IF outcome = None THEN latest_index[1] - NumPages
                         ELSE page_index - 1
    /\ pageSleeps' = pageSleeps + 1
    /\ UNCHANGED <<pc, runs, latest_index, data, raw, filt, content, filtered,
                   to_crawl, i, existing, readFailed, attempts, appended,
                   postSleeps, failedAt, sameQ, prevWritesOk, fvars, evars>>

\* crawl_posts, lines 123-125: one iteration of the page loop.
WalkPage ==
    /\ pc = "walk"
    /\ page_index > latest_index[1] - NumPages
    /\ \E outcome \in PageOutcomes :
        /\ all_articles' = all_articles \o crawl_page(outcome)
        /\ visited' = Append(visited, [index |-> page_index, outcome |-> outcome])
    /\ pageSleeps' = pageSleeps + 1
    /\ page_index' = page_index - 1
    /\ UNCHANGED <<pc, runs, latest_index, data, raw, filt, content, filtered,
                   to_crawl, i, existing, readFailed, attempts, appended,
                   postSleeps, failedAt, sameQ, prevWritesOk, fvars, evars>>

\* crawl_posts, line 126: the loop is over and the function returns the
\* frame; its locals are gone.
WalkDone ==
    /\ pc = "walk"
    /\ page_index <= latest_index[1] - NumPages
    /\ data' = DataFrame(all_articles)
    /\ pc' = "save_raw"
    /\ latest_index' = None
    /\ page_index' = 0
    /\ all_articles' = <<>>
    /\ visited' = <<>>
    /\ pageSleeps' = 0
    /\ UNCHANGED <<runs, raw, filt, content, filtered, to_crawl, i, existing,
                   readFailed, attempts, appended, postSleeps, failedAt, sameQ,
                   prevWritesOk, fvars, evars>>

\* __main__, line 245: the raw table is overwritten with whatever came back.
SaveRaw ==
    /\ pc = "save_raw"
    /\ raw' = ToCsv(data)
    /\ pc' = "filter"
    /\ UNCHANGED <<runs, latest_index, page_index, all_articles, data, filt,
                   content, filtered, to_crawl, i, visited, pageSleeps, existing,
                   readFailed, attempts, appended, postSleeps, failedAt, sameQ, prevWritesOk, fvars, evars>>

\* __main__, line 247: process_and_save_data(data).  df["nrec"] raises
\* KeyError on a frame without columns.  The filtered table still holds the
\* collection the previous persister run got when this step overwrites it.
FilterAndSave ==
    /\ pc = "filter"
    /\ IF ~data.cols
       THEN pc' = "crashed" /\ UNCHANGED <<filtered, filt, sameQ>>
       ELSE LET out == [cols |-> TRUE,
                        rows |-> process_recommendations(data.rows, Some(EffectiveThreshold(None)))]
            IN  /\ filtered' = out
                /\ filt' = ToCsv(out)
                /\ sameQ' = (filt.written /\ filt.rows = out.rows)
                /\ pc' = "persist_begin"
    /\ UNCHANGED <<runs, latest_index, page_index, all_articles, data, raw,
                   content, to_crawl, i, visited, pageSleeps, existing,
                   readFailed, attempts, appended, postSleeps, failedAt, prevWritesOk, fvars, evars>>

\* crawl_ptt_post_content, lines 210-222.  The file is there once a row was
\* written; reading it may raise, and then the dedup set stays empty.
PersistBegin ==
    /\ pc = "persist_begin"
    /\ \E readOk \in (IF content = <<>> THEN {TRUE} ELSE BOOLEAN) :
        /\ existing' = ExistingLinks(content, readOk)
        /\ readFailed' = ~readOk
        /\ to_crawl' = ToCrawl(filtered.rows, ExistingLinks(content, readOk))
    /\ i' = 1
    /\ pc' = "persist"
    /\ UNCHANGED <<runs, latest_index, page_index, all_articles, data, raw, filt,
                   content, filtered, visited, pageSleeps, attempts, appended,
                   postSleeps, failedAt, sameQ, prevWritesOk, fvars, evars>>

\* A row loop that a failed write ends.
PersistRow_StopOnFailure ==
    /\ pc = "persist"
    /\ i <= Len(to_crawl)
    /\ \E page \in PostPages(to_crawl[i].link), ok \in BOOLEAN :
        LET structured == get_structured_content(page)
            record     == ContentRecord(to_crawl[i], structured)
        IN  /\ content' = safe_write_csv(content, record, ok)
            /\ attempts' = Append(attempts, i)
            /\ appended' = IF ok THEN Append(appended, i) ELSE appended
            /\ i' = IF ok THEN i + 1 ELSE Len(to_crawl) + 1
    /\ postSleeps' = postSleeps + 1
    /\ UNCHANGED <<pc, runs, latest_index, page_index, all_articles, data, raw,
                   filt, filtered, to_crawl, visited, pageSleeps, existing,
                   readFailed, failedAt, sameQ, prevWritesOk, fvars, evars>>

\* crawl_ptt_post_content, lines 223-235: one iteration of the row loop.
PersistRow ==
    /\ pc = "persist"
    /\ i <= Len(to_crawl)
    /\ \E page \in PostPages(to_crawl[i].link), ok \in BOOLEAN :
        LET structured == get_structured_content(page)
            record     == ContentRecord(to_crawl[i], structured)
        IN  /\ content' = safe_write_csv(content, record, ok)
            /\ attempts' = Append(attempts, i)
            /\ appended' = IF ok THEN Append(appended, i) ELSE appended
    /\ postSleeps' = postSleeps + 1
    /\ i' = i + 1
    /\ UNCHANGED <<pc, runs, latest_index, page_index, all_articles, data, raw,
                   filt, filtered, to_crawl, visited, pageSleeps, existing,
                   readFailed, failedAt, sameQ, prevWritesOk, fvars, evars>>

\* crawl_ptt_post_content, line 236.
PersistDone ==
    /\ pc = "persist"
    /\ i > Len(to_crawl)
    /\ pc' = "done"
    /\ UNCHANGED <<runs, latest_index, page_index, all_articles, data, raw, filt,
                   content, filtered, to_crawl, i, visited, pageSleeps, existing,
                   readFailed, attempts, appended, postSleeps, failedAt, sameQ, prevWritesOk, fvars, evars>>

RunStep ==
    \/ Resolve
    \/ WalkPage
    \/ WalkDone
    \/ SaveRaw
    \/ FilterAndSave
    \/ PersistBegin
    \/ PersistRow
    \/ PersistDone

Init == PInit /\ FIdle /\ EIdle

Next ==
    \/ StartRun
    \/ Resolve
    \/ WalkPage
    \/ WalkDone
    \/ SaveRaw
    \/ FilterAndSave
    \/ PersistBegin
    \/ PersistRow
    \/ PersistDone

Spec == Init /\ [][Next]_vars

\* The flow is sequential and every call of it returns: a run that has
\* started keeps taking steps.
FairSpec == Spec /\ WF_vars(RunStep)

---------------------------------------------------------------------------
\* Direct calls of the Popularity Filter, on every small listing collection
\* and threshold.

MaxFilterRows == 3

FilterTokens ==
    {<<"Bao">>, <<"X">>, <<"3", "7">>, <<"0">>, <<>>, <<"a", "b">>, <<"-", "5">>}

FilterThresholds == {None} \cup {Some(t) : t \in {-6, -1, 0, 1, 38, 100}}

\* The k-th row of a collection carries link k, so that order is visible.
ListingRows(toks) ==
    [k \in DOMAIN toks |-> [title |-> "t", date |-> "d", link |-> k, nrec |-> toks[k]]]

FilterInit ==
    /\ f_pc = "ready"
    /\ f_rows \in {ListingRows(toks) : toks \in SeqsUpTo(FilterTokens, MaxFilterRows)}
    /\ f_threshold \in FilterThresholds
    /\ f_result = <<>>

FilterCall ==
    /\ f_pc = "ready"
    /\ f_result' = process_recommendations(f_rows, f_threshold)
    /\ f_pc' = "done"
    /\ UNCHANGED <<f_rows, f_threshold, pvars, evars>>

FilterNext == FilterCall

FilterSpecInit == PInit /\ FilterInit /\ EIdle

FilterSpec == FilterSpecInit /\ [][FilterNext]_vars

---------------------------------------------------------------------------
\* Direct calls of the Content Extractor, on every small post page.

MaxKids == 4

ExtractNodes ==
    {TextNode(<<"Title", ":", " ", "w">>),
     TextNode(<<"Board", "w">>),
     TextNode(<<" ", "Time", ":", "w">>),
     TextNode(<<"w">>),
     TextNode(<<"w", "Board">>),
     TextNode(<<" ">>),
     Anchor("u1", <<TextNode(<<"w">>)>>),
     Element("b", <<Anchor("u2", <<>>)>>),
     Element("span", <<TextNode(<<"Author", "w">>), Anchor("u1", <<>>)>>),
     Element("div", <<Element("b", <<Anchor("u3", <<TextNode(<<"w">>)>>)>>)>>)}

ExtractPages ==
    {[reachable |-> FALSE, hasMain |-> FALSE, main |-> <<>>],
     [reachable |-> TRUE,  hasMain |-> FALSE, main |-> <<>>]}
    \cup {[reachable |-> TRUE, hasMain |-> TRUE, main |-> m] :
            m \in SeqsUpTo(ExtractNodes, MaxKids)}

ExtractInit ==
    /\ e_pc = "ready"
    /\ e_page \in ExtractPages
    /\ e_result = EmptyResult

ExtractCall ==
    /\ e_pc = "ready"
    /\ e_result' = get_structured_content(e_page)
    /\ e_pc' = "done"
    /\ UNCHANGED <<e_page, pvars, fvars>>

ExtractNext == ExtractCall

ExtractSpecInit == PInit /\ FIdle /\ ExtractInit

ExtractSpec == ExtractSpecInit /\ [][ExtractNext]_vars

---------------------------------------------------------------------------
\* Properties.

Listing(r) == [title |-> r.title, date |-> r.date, link |-> r.link, nrec |-> r.nrec]

\* s is t with some elements left out.
RECURSIVE IsSubSeq(_, _)
IsSubSeq(s, t) ==
    IF s = <<>> THEN TRUE
    ELSE IF t = <<>> THEN FALSE
    ELSE IF Head(s) = Head(t) THEN IsSubSeq(Tail(s), Tail(t))
    ELSE IsSubSeq(s, Tail(t))

\* The rows the current persister run has put into the content table.
RunRows == SubSeq(content, Len(content) - Len(appended) + 1, Len(content))

C2_OneRowPerLink ==
    \A j, k \in DOMAIN content : content[j].link = content[k].link => j = k

\* C4: once pagination resolution has failed, no page is scraped and every
\* table that existed is as it was.
C4_FailedResolutionLeavesStorage ==
    failedAt.taken =>
        /\ visited = <<>>
        /\ failedAt.raw.written => raw = failedAt.raw
        /\ failedAt.filt.written => filt = failedAt.filt
        /\ content = failedAt.content

\* C5: no run ends in an unhandled error.
C5_NoUnhandledError == pc # "crashed"

\* C7: the rows a run appends are rows of its qualifying collection, in that
\* collection's order, and every step leaves the rows already in the content
\* table where they were.
C7_AppendOnlyOrdered ==
    /\ [](/\ Len(appended) <= Len(content)
          /\ IsSubSeq([k \in DOMAIN RunRows |-> Listing(RunRows[k])], filtered.rows)
          /\ \A k \in DOMAIN appended :
                /\ Listing(RunRows[k]) = to_crawl[appended[k]]
                /\ k > 1 => appended[k - 1] < appended[k])
    /\ [][IsPrefix(content, content')]_vars

C7_Witness ==
    /\ runs = 2
    /\ Len(appended) >= 2
    /\ Len(content) > Len(appended)
    /\ RunRows[1].link # RunRows[2].link

\* C9: the persister attempts one append and takes one delay for every
\* listing whose link is not in the dedup set, in order, whatever failed,
\* and every persister run completes.
C9_FailureIsolation ==
    /\ [](pc \in {"persist", "done"} =>
            /\ to_crawl = SelectSeq(filtered.rows, LAMBDA r : r.link \notin existing)
            /\ attempts = [k \in 1..(i - 1) |-> k]
            /\ postSleeps = i - 1
            /\ pc = "done" => i = Len(to_crawl) + 1)
    /\ (pc = "persist_begin" ~> pc = "done")

C9_Witness ==
    /\ pc = "done"
    /\ Len(attempts) = 2
    /\ to_crawl[1].link = "b"
    /\ 1 \notin Range(appended)
    /\ 2 \in Range(appended)
    /\ content[Len(content)].content # <<>>

\* C10: the walk visits F, F-1, ..., F-N+1 in that order and sleeps once per
\* page; it collects the accepted entries of the fetched pages in visiting
\* order, nothing for a page whose fetch failed; and it returns what it
\* collected once N pages were visited.
C10_WalkDescending ==
    /\ [](pc = "walk" =>
            /\ Len(visited) <= NumPages
            /\ \A k \in DOMAIN visited : visited[k].index = latest_index[1] - k + 1
            /\ pageSleeps = Len(visited)
            /\ all_articles =
                  Flatten([k \in DOMAIN visited |->
                      IF visited[k].outcome = None THEN <<>>
                      ELSE ScrapeEntries(visited[k].outcome[1])]))
    /\ [][(pc = "walk" /\ pc' # "walk") =>
            (Len(visited) = NumPages /\ data'.rows = all_articles)]_vars

C10_Witness ==
    /\ pc = "walk"
    /\ Len(visited) = NumPages
    /\ visited[1].outcome = None
    /\ visited[2].outcome # None
    /\ all_articles # <<>>

---------------------------------------------------------------------------
\* Properties of the direct calls.

\* The score the specification gives a popularity token.
ClaimScore(tok) ==
    IF tok = <<"Bao">> THEN 100
    ELSE IF tok = <<"X">> THEN -1
    ELSE IF ToNumeric(tok) # None THEN ToNumeric(tok)[1]
    ELSE 0

\* C3: for every integer threshold the filter returns exactly the rows whose
\* score is at least the threshold, in order.
C3_FilterExact ==
    (f_pc = "done" /\ f_threshold # None) =>
        f_result = SelectSeq(f_rows, LAMBDA r : ClaimScore(r.nrec) >= f_threshold[1])

\* C6: urls holds the target of every anchor of the original content region.
C6_UrlsComplete ==
    (e_pc = "done" /\ e_page.reachable /\ e_page.hasMain) =>
        /\ e_result.present
        /\ e_result.urls = FindAnchors(e_page.main)

\* The lines of the post: the non-blank lines of the text the region shows.
PostLines == NonBlankLines(GetText(StripDecoration(e_page.main)))

\* The provisional body lines: those with neither the Title nor the Author token.
Provisional(lines) ==
    SelectSeq(lines, LAMBDA l : ~Contains(l, "Title") /\ ~Contains(l, "Author"))

\* lines without its longest leading run of Board / Time lines.
DropLeadingHeader(lines) ==
    LET real == {k \in DOMAIN lines : ~IsHeaderLine(lines[k])}
    IN  IF real = {} THEN <<>>
        ELSE SubSeq(lines, CHOOSE k \in real : \A j \in real : k <= j, Len(lines))

\* C8: content is the join of the provisional body lines without their
\* longest leading run of Board / Time lines, and the header skip leaves
\* that result as it is.
C8_ContentBoundary ==
    (e_pc = "done" /\ e_result.present) =>
        /\ e_result.content = Join(DropLeadingHeader(Provisional(PostLines)))
        /\ CleanContent(SplitLines(e_result.content, <<>>))
              = SplitLines(e_result.content, <<>>)

C8_Witness ==
    /\ e_pc = "done" /\ e_result.present
    /\ Len(Provisional(PostLines)) >= 4
    /\ IsHeaderLine(Provisional(PostLines)[1])
    /\ IsHeaderLine(Provisional(PostLines)[2])
    /\ ~IsHeaderLine(Provisional(PostLines)[3])
    /\ IsHeaderLine(Provisional(PostLines)[4])
    /\ Len(SplitLines(e_result.content, <<>>)) = 2

=============================================================================
